---- MODULE Spec2Model ----
(***************************************************************************)
(* Donor fund tracker canister (src/dfinity_js_backend/src/index.ts):      *)
(* the keyed tables, the donation reservation / payment verification /     *)
(* completion protocol, the expiry timers and the profile and campaign     *)
(* operations, as a state machine.                                         *)
(*                                                                         *)
(* Execution model of the canister: every update call runs to completion   *)
(* on the tables, except at an await, where the call is suspended and      *)
(* other calls and timer callbacks may run (completeReserveDonation awaits *)
(* the ledger).                                                            *)
(***************************************************************************)
EXTENDS Integers, Sequences, FiniteSets, TLC

\* ------------------------------------------------------------------ bounds
\* Reservations made in one behaviour (donation ids are 1..MaxReserves).
MaxReserves == 2
\* The hash is kept at a narrow width: hashCode values lie in
\* -HashRange .. HashRange-1 (the library's are 32-bit).
HashRange == 2

\* Entries acceptCampaign may append to a donor's donations and to a
\* campaign's donors in one behaviour.
MaxAccepts == 2

\* ------------------------------------------------------- program constants
TIMEOUT_PERIOD == 9600

\* ------------------------------------------------------------ input domains
Principals == {"alice", "bob"}
DonorIds == {"d1", "d2"}
CharityIds == {"c1"}
CampaignIds == {"x1"}
Amounts == {1, 2}
BlockIndexes == {5}
Emails == {"", "bad", "a@x.io", "b@x.io"}
Texts == {"", "t"}

\* Option values (azle's None / Some).
None == [tag |-> "None", val |-> 0]
Some(v) == [tag |-> "Some", val |-> v]

\* ------------------------------------------------------- the record store
\* A StableBTreeMap is a function from the keys it holds to their values.
EmptyMap == [k \in {} |-> None]
\* An insertion that keeps the value a key already has.
MapInsertNew(m, k, v) ==
  [x \in (DOMAIN m) \cup {k} |-> IF x \in DOMAIN m THEN m[x] ELSE v]
MapInsert(m, k, v) == [x \in (DOMAIN m) \cup {k} |-> IF x = k THEN v ELSE m[x]]
\* A removal that leaves the map as it is.
MapRemoveKeep(m, k) == m
MapRemove(m, k) == [x \in (DOMAIN m) \ {k} |-> m[x]]
MapHas(m, k) == k \in DOMAIN m
MapValues(m) == {m[k] : k \in DOMAIN m}

VARIABLES
  donorProfileStorage,    \* donor id -> DonorProfile
  charityProfileStorage,  \* charity id -> Charity
  campaignStorage,        \* campaign id -> Campaign
  persistedReserves,      \* principal -> Donation (completed donations)
  pendingReserves,        \* memo -> Donation (pending reservations)
  donationReportStorage,  \* report id -> DonationReport
  timers,                 \* the timers set by ic.setTimer and not yet fired
  now,                    \* ic.time()
  inflight,               \* completeReserveDonation calls awaiting the ledger
  nextDonation,           \* the next fresh donation id (uuidv4)
  last,                   \* the last operation run and what it returned
  memoFate,               \* history: what last happened to each memo's slot
  okCount,                \* history: successful completions per donation id
  issued                  \* the identifiers uuidv4 has handed out

vars == <<donorProfileStorage, charityProfileStorage, campaignStorage,
          persistedReserves, pendingReserves, donationReportStorage, timers,
          now, inflight, nextDonation, last, memoFate, okCount, issued>>

tables == <<donorProfileStorage, charityProfileStorage, campaignStorage,
            persistedReserves, pendingReserves, donationReportStorage>>

\* ------------------------------------------------------------------ hash
Abs(n) == IF n < 0 THEN -n ELSE n

\* Two's-complement wrap of n into -HashRange .. HashRange-1.
Wrap(n) ==
  LET r == n % (2 * HashRange)
  IN IF r >= HashRange THEN r - 2 * HashRange ELSE r

\* The hashcode library's string hash, h = ((h << 5) - h + c) & mask, over
\* the character codes of the value's text.
RECURSIVE hashString(_, _)
hashString(s, h) ==
  IF s = <<>> THEN h ELSE hashString(Tail(s), Wrap(31 * h + Head(s)))

\* hashCode().value(input); undefined (the empty code sequence) hashes to 0.
hashCodeValue(input) == hashString(input, 0)

\* A hash that keeps the sign of the library's value.
hashSigned(input) == hashCodeValue(input)

\* function hash(input): BigInt(Math.abs(hashCode().value(input)))
hash(input) == Abs(hashCodeValue(input))

\* The largest memo the hash can give.
Memos == 0 .. HashRange

\* Text of an identifier and of a principal, as character codes.
TextCodes(id) ==
  CASE id = "d1" -> <<1>>
    [] id = "d2" -> <<2>>
    [] OTHER -> <<3>>
PrincipalText(p) == IF p = "alice" THEN <<1>> ELSE <<2>>
Underscore == <<0>>

\* function generateCorrelationId(bookId)
generateCorrelationId(bookId, caller, time) ==
  hash(TextCodes(bookId) \o Underscore \o PrincipalText(caller)
       \o Underscore \o <<time>>)

\* ------------------------------------------------------------- the ledger
\* binaryAddressFromPrincipal(p, 0): one address per principal.
binaryAddressFromPrincipal(p) == IF p = "alice" THEN <<1>> ELSE <<2>>
\* An account of the ledger that belongs to neither principal.
ForeignAddress == <<7>>
Addresses == {binaryAddressFromPrincipal(p) : p \in Principals}
               \cup {ForeignAddress}
Undefined == <<>>

\* The operation of a block's transaction: None, Some(Transfer) or
\* Some(another operation, which has no Transfer field).
Operations ==
  {[kind |-> "None", from |-> Undefined, to |-> Undefined, e8s |-> -1],
   [kind |-> "Mint", from |-> Undefined, to |-> Undefined, e8s |-> -1]}
  \cup {[kind |-> "Transfer", from |-> f, to |-> t, e8s |-> a] :
          f \in Addresses, t \in Addresses, a \in Amounts}
LedgerBlocks == [memo : Memos, operation : Operations]
\* query_blocks({start, length: 1}) answers with no block or one block.
QueryResponses == {<<>>} \cup {<<b>> : b \in LedgerBlocks}

\* The predicate of blockData.blocks.find in verifyPaymentInternal.
BlockMatches(b, caller, receiver, amount, memo) ==
  IF b.operation.kind = "None"
  THEN FALSE
  ELSE /\ b.memo = memo
       /\ hash(binaryAddressFromPrincipal(caller)) = hash(b.operation.from)
       /\ hash(binaryAddressFromPrincipal(receiver)) = hash(b.operation.to)
       /\ amount = b.operation.e8s

\* async function verifyPaymentInternal(receiver, amount, block, memo), for
\* the caller ic.caller() and the ledger's answer blocks.
verifyPaymentInternal(caller, receiver, amount, memo, blocks) ==
  \E i \in 1 .. Len(blocks) :
    BlockMatches(blocks[i], caller, receiver, amount, memo)

\* ------------------------------------------------------------------- Init
Init ==
  /\ donorProfileStorage = EmptyMap
  /\ charityProfileStorage = EmptyMap
  /\ campaignStorage = EmptyMap
  /\ persistedReserves = EmptyMap
  /\ pendingReserves = EmptyMap
  /\ donationReportStorage = EmptyMap
  /\ timers = {}
  /\ now = 0
  /\ inflight = {}
  /\ nextDonation = 1
  /\ last = [op |-> "init"]
  /\ memoFate = [m \in Memos |-> "none"]
  /\ okCount = [d \in {} |-> 0]
  /\ issued = {}

\* ---------------------------------------------------------- verifyPayment
\* verifyPayment: a query, applied to the arguments and the ledger answer
\* held in last; it changes no table.
verifyPayment ==
  /\ last.op = "verifyPayment.call"
  /\ last' = [op |-> "verifyPayment", caller |-> last.caller,
              receiver |-> last.receiver, amount |-> last.amount,
              block |-> last.block, memo |-> last.memo,
              blocks |-> last.blocks,
              result |-> verifyPaymentInternal(last.caller, last.receiver,
                                               last.amount, last.memo,
                                               last.blocks)]
  /\ UNCHANGED <<tables, timers, now, inflight, nextDonation,
                 memoFate, okCount, issued>>

\* The canister after construction, with one verifyPayment query arriving.
InitVerify ==
  /\ donorProfileStorage = EmptyMap
  /\ charityProfileStorage = EmptyMap
  /\ campaignStorage = EmptyMap
  /\ persistedReserves = EmptyMap
  /\ pendingReserves = EmptyMap
  /\ donationReportStorage = EmptyMap
  /\ timers = {}
  /\ now = 0
  /\ inflight = {}
  /\ nextDonation = 1
  /\ memoFate = [m \in Memos |-> "none"]
  /\ okCount = [d \in {} |-> 0]
  /\ issued = {}
  /\ last \in [op : {"verifyPayment.call"}, caller : Principals,
               receiver : Principals, amount : Amounts,
               block : BlockIndexes, memo : Memos, blocks : QueryResponses]

NextVerify == verifyPayment

SpecVerify == InitVerify /\ [][NextVerify]_vars

\* ------------------------------------------------------ profile creation
\* /^[^\s@]+@[^\s@]+\.[^\s@]+$/ on the e-mail texts of the model.
EmailRegexTest(email) == email \in {"a@x.io", "b@x.io"}

\* A uniqueness test that finds no profile.
emailExistsNever(profiles, email) == FALSE

\* const emailExists = profiles.some((profile) => profile.email === email)
emailExists(profiles, email) ==
  \E profile \in profiles : profile.email = email

\* uuidv4(): an identifier never handed out before.
FreshId(ids, used) == CHOOSE id \in ids \ used : TRUE

DonorProfilePayloads ==
  [name : Texts, phoneNumber : Texts, email : Emails, address : Texts]

\* The donor record built by createDonorProfile (joinedAt is left out: no
\* operation reads it).
NewDonor(donorId, caller, payload) ==
  [id |-> donorId, owner |-> caller, name |-> payload.name,
   phoneNumber |-> payload.phoneNumber, email |-> payload.email,
   address |-> payload.address, donationAmount |-> 0, donations |-> <<>>,
   donationsCount |-> 0, status |-> "Active"]

createDonorProfile(caller, payload) ==
  /\ IF \/ payload.name = "" \/ payload.email = ""
        \/ payload.phoneNumber = "" \/ payload.address = ""
     THEN /\ last' = [op |-> "createDonorProfile", result |-> "InvalidPayload",
                      why |-> "Missing required fields"]
          /\ UNCHANGED <<donorProfileStorage, issued>>
     ELSE IF ~EmailRegexTest(payload.email)
     THEN /\ last' = [op |-> "createDonorProfile", result |-> "InvalidPayload",
                      why |-> "Invalid email format"]
          /\ UNCHANGED <<donorProfileStorage, issued>>
     ELSE IF emailExists(MapValues(donorProfileStorage), payload.email)
     THEN /\ last' = [op |-> "createDonorProfile", result |-> "InvalidPayload",
                      why |-> "Email already exists"]
          /\ UNCHANGED <<donorProfileStorage, issued>>
     ELSE /\ DonorIds \ issued # {}
          /\ LET donorId == FreshId(DonorIds, issued)
                 donor == NewDonor(donorId, caller, payload)
             IN /\ donorProfileStorage' =
                     MapInsert(donorProfileStorage, donorId, donor)
                /\ last' = [op |-> "createDonorProfile", result |-> "Ok",
                            why |-> donorId]
                /\ issued' = issued \cup {donorId}
  /\ UNCHANGED <<charityProfileStorage, campaignStorage, persistedReserves,
                 pendingReserves, donationReportStorage, timers, now,
                 inflight, nextDonation, memoFate, okCount>>

CharityProfilePayloads ==
  [name : Texts, phoneNumber : Texts, email : Emails, address : Texts,
   missionStatement : Texts]

\* The charity record built by createCharityProfile (registeredAt left out).
NewCharity(charityId, caller, payload) ==
  [id |-> charityId, owner |-> caller, name |-> payload.name,
   phoneNumber |-> payload.phoneNumber, email |-> payload.email,
   address |-> payload.address, missionStatement |-> payload.missionStatement,
   totalReceived |-> 0, donationsReceived |-> <<>>, donationsCount |-> 0,
   status |-> "Active"]

createCharityProfile(caller, payload) ==
  /\ IF \/ payload.name = "" \/ payload.email = ""
        \/ payload.phoneNumber = "" \/ payload.address = ""
        \/ payload.missionStatement = ""
     THEN /\ last' = [op |-> "createCharityProfile",
                      result |-> "InvalidPayload",
                      why |-> "Missing required fields"]
          /\ UNCHANGED <<charityProfileStorage, issued>>
     ELSE IF ~EmailRegexTest(payload.email)
     THEN /\ last' = [op |-> "createCharityProfile",
                      result |-> "InvalidPayload",
                      why |-> "Invalid email format"]
          /\ UNCHANGED <<charityProfileStorage, issued>>
     ELSE IF emailExists(MapValues(charityProfileStorage), payload.email)
     THEN /\ last' = [op |-> "createCharityProfile",
                      result |-> "InvalidPayload",
                      why |-> "Email already exists"]
          /\ UNCHANGED <<charityProfileStorage, issued>>
     ELSE /\ CharityIds \ issued # {}
          /\ LET charityId == FreshId(CharityIds, issued)
                 charity == NewCharity(charityId, caller, payload)
             IN /\ charityProfileStorage' =
                     MapInsert(charityProfileStorage, charityId, charity)
                /\ last' = [op |-> "createCharityProfile", result |-> "Ok",
                            why |-> charityId]
                /\ issued' = issued \cup {charityId}
  /\ UNCHANGED <<donorProfileStorage, campaignStorage, persistedReserves,
                 pendingReserves, donationReportStorage, timers, now,
                 inflight, nextDonation, memoFate, okCount>>

\* Charity ids a caller may pass: the ids in use and one that never is.
CharityArgs == CharityIds \cup {"", "c9"}
TargetAmounts == {0, 2}
CampaignPayloads ==
  [charityId : CharityArgs, title : Texts, description : Texts,
   targetAmount : TargetAmounts]

\* The campaign record built by createCampaign (startedAt left out).
NewCampaign(campaignId, caller, payload) ==
  [id |-> campaignId, charityId |-> payload.charityId,
   title |-> payload.title, description |-> payload.description,
   targetAmount |-> payload.targetAmount, totalReceived |-> 0,
   donors |-> <<>>, status |-> "Pending", creator |-> caller]

createCampaign(caller, payload) ==
  /\ IF \/ payload.title = "" \/ payload.description = ""
        \/ payload.targetAmount = 0
     THEN /\ last' = [op |-> "createCampaign", result |-> "InvalidPayload",
                      why |-> "Missing required fields"]
          /\ UNCHANGED <<campaignStorage, issued>>
     ELSE IF ~MapHas(charityProfileStorage, payload.charityId)
     THEN /\ last' = [op |-> "createCampaign", result |-> "NotFound",
                      why |-> "charity"]
          /\ UNCHANGED <<campaignStorage, issued>>
     ELSE /\ CampaignIds \ issued # {}
          /\ LET campaignId == FreshId(CampaignIds, issued)
                 campaign == NewCampaign(campaignId, caller, payload)
             IN /\ campaignStorage' =
                     MapInsert(campaignStorage, campaignId, campaign)
                /\ last' = [op |-> "createCampaign", result |-> "Ok",
                            why |-> campaignId]
                /\ issued' = issued \cup {campaignId}
  /\ UNCHANGED <<donorProfileStorage, charityProfileStorage,
                 persistedReserves, pendingReserves, donationReportStorage,
                 timers, now, inflight, nextDonation, memoFate,
                 okCount>>

\* -------------------------------------------------------- reserveDonation
\* Ids a caller may pass: the ids in use, the empty text and one never used.
DonorArgs == DonorIds \cup {"", "d9"}
CampaignArgs == CampaignIds \cup {"", "x9"}
DonationPayloads ==
  [donorId : DonorArgs, charityId : CharityArgs, campaignId : CampaignArgs,
   amount : Amounts]

\* The checks of reserveDonation with the donor looked up before the
\* payload is validated.
ReserveCheckLookupFirst(payload) ==
  IF ~MapHas(donorProfileStorage, payload.donorId)
  THEN [result |-> "NotFound", why |-> "donor"]
  ELSE IF payload.donorId = "" \/ payload.charityId = ""
          \/ payload.campaignId = ""
  THEN [result |-> "InvalidPayload", why |-> "required"]
  ELSE IF ~MapHas(charityProfileStorage, payload.charityId)
  THEN [result |-> "NotFound", why |-> "charity"]
  ELSE IF ~MapHas(campaignStorage, payload.campaignId)
  THEN [result |-> "NotFound", why |-> "campaign"]
  ELSE [result |-> "Ok", why |-> ""]

\* The checks of reserveDonation with the charity looked up before the donor.
ReserveCheckCharityFirst(payload) ==
  IF payload.donorId = "" \/ payload.charityId = "" \/ payload.campaignId = ""
  THEN [result |-> "InvalidPayload", why |-> "required"]
  ELSE IF ~MapHas(charityProfileStorage, payload.charityId)
  THEN [result |-> "NotFound", why |-> "charity"]
  ELSE IF ~MapHas(donorProfileStorage, payload.donorId)
  THEN [result |-> "NotFound", why |-> "donor"]
  ELSE IF ~MapHas(campaignStorage, payload.campaignId)
  THEN [result |-> "NotFound", why |-> "campaign"]
  ELSE [result |-> "Ok", why |-> ""]

\* The payload validation and the three existence checks of reserveDonation,
\* in the order of the code; "Ok" when all pass.
ReserveCheck(payload) ==
  IF payload.donorId = "" \/ payload.charityId = "" \/ payload.campaignId = ""
  THEN [result |-> "InvalidPayload", why |-> "required"]
  ELSE IF ~MapHas(donorProfileStorage, payload.donorId)
  THEN [result |-> "NotFound", why |-> "donor"]
  ELSE IF ~MapHas(charityProfileStorage, payload.charityId)
  THEN [result |-> "NotFound", why |-> "charity"]
  ELSE IF ~MapHas(campaignStorage, payload.campaignId)
  THEN [result |-> "NotFound", why |-> "campaign"]
  ELSE [result |-> "Ok", why |-> ""]

\* The donation record with the amount made part of the correlation text.
ReserveRecordMemoWithAmount(donationId, payload, caller) ==
  [id |-> donationId,
   donorId |-> payload.donorId,
   charityId |-> payload.charityId,
   campaignId |-> payload.campaignId,
   donator |-> donorProfileStorage[payload.donorId].owner,
   receiver |-> campaignStorage[payload.campaignId].creator,
   amount |-> payload.amount,
   status |-> "PaymentPending",
   createdAt |-> now,
   paid_at_block |-> None,
   memo |-> generateCorrelationId(payload.donorId, caller,
                                  now + payload.amount)]

\* The donation record with the donor's owner as the payee too.
ReserveRecordPayeeDonor(donationId, payload, caller) ==
  [id |-> donationId,
   donorId |-> payload.donorId,
   charityId |-> payload.charityId,
   campaignId |-> payload.campaignId,
   donator |-> donorProfileStorage[payload.donorId].owner,
   receiver |-> donorProfileStorage[payload.donorId].owner,
   amount |-> payload.amount,
   status |-> "PaymentPending",
   createdAt |-> now,
   paid_at_block |-> None,
   memo |-> generateCorrelationId(payload.donorId, caller, now)]

\* The donation record built by reserveDonation.
ReserveRecord(donationId, payload, caller) ==
  [id |-> donationId,
   donorId |-> payload.donorId,
   charityId |-> payload.charityId,
   campaignId |-> payload.campaignId,
   donator |-> donorProfileStorage[payload.donorId].owner,
   receiver |-> campaignStorage[payload.campaignId].creator,
   amount |-> payload.amount,
   status |-> "PaymentPending",
   createdAt |-> now,
   paid_at_block |-> None,
   memo |-> generateCorrelationId(payload.donorId, caller, now)]

\* function discardByTimeout(memo, delay): the timers after ic.setTimer.
\* A timer is named by the reservation that set it.
discardByTimeout(memo, delay, timerId) ==
  timers \cup {[memo |-> memo, due |-> now + delay, timerId |-> timerId]}

\* History: the record returned to the call before this one, when that call
\* was a successful reserveDonation for the same donor id, by the same
\* caller, at the same time.
EarlierSame(caller, payload) ==
  IF /\ last.op = "reserveDonation" /\ last.result = "Ok"
     /\ last.donorId = payload.donorId
     /\ last.caller = caller
     /\ last.rec.createdAt = now
  THEN [seen |-> TRUE, rec |-> last.rec]
  ELSE [seen |-> FALSE, rec |-> [id |-> 0]]

reserveDonation(caller, payload) ==
  LET check == ReserveCheck(payload)
  IN /\ IF check.result # "Ok"
        THEN /\ last' = [op |-> "reserveDonation", caller |-> caller,
                         donorId |-> payload.donorId,
                         charityId |-> payload.charityId,
                         campaignId |-> payload.campaignId,
                         result |-> check.result, why |-> check.why]
             /\ UNCHANGED <<pendingReserves, timers, nextDonation, memoFate>>
        ELSE /\ nextDonation <= MaxReserves
             /\ LET donation == ReserveRecord(nextDonation, payload, caller)
                IN /\ pendingReserves' =
                        MapInsert(pendingReserves, donation.memo, donation)
                   /\ timers' = discardByTimeout(donation.memo,
                                                 TIMEOUT_PERIOD, donation.id)
                   /\ memoFate' = [memoFate EXCEPT ![donation.memo] = "pending"]
                   /\ last' = [op |-> "reserveDonation", caller |-> caller,
                               donorId |-> payload.donorId,
                               charityId |-> payload.charityId,
                               campaignId |-> payload.campaignId,
                               amount |-> payload.amount,
                               result |-> "Ok", why |-> "", rec |-> donation,
                               earlier |-> EarlierSame(caller, payload)]
             /\ nextDonation' = nextDonation + 1
     /\ UNCHANGED <<donorProfileStorage, charityProfileStorage,
                    campaignStorage, persistedReserves,
                    donationReportStorage, now, inflight, okCount, issued>>

\* ------------------------------------------------ createDonationReport
\* The identifiers uuidv4 hands to donation reports.
ReportIds == {"r1", "r2"}

ReportPayloads ==
  [donorId : {"d1", "d9"}, charityId : {"c1", "c9"},
   campaignId : {"", "x1", "x9"}, campaignTitle : Texts, amount : {0, 2}]

\* The payload validation and the three existence checks of
\* createDonationReport, in the order of the code; an empty text and a
\* zero amount are falsy.
ReportCheck(payload) ==
  IF \/ payload.donorId = "" \/ payload.charityId = ""
     \/ payload.campaignId = "" \/ payload.campaignTitle = ""
     \/ payload.amount = 0
  THEN [result |-> "InvalidPayload", why |-> "Missing required fields"]
  ELSE IF ~MapHas(donorProfileStorage, payload.donorId)
  THEN [result |-> "NotFound", why |-> "donor"]
  ELSE IF ~MapHas(charityProfileStorage, payload.charityId)
  THEN [result |-> "NotFound", why |-> "charity"]
  ELSE IF ~MapHas(campaignStorage, payload.campaignId)
  THEN [result |-> "NotFound", why |-> "campaign"]
  ELSE [result |-> "Ok", why |-> ""]

\* The report record built by createDonationReport (createdAt is the text
\* of the wall clock, which no operation reads; it is left out).
NewDonationReport(donationReportId, payload) ==
  [id |-> donationReportId, donorId |-> payload.donorId,
   charityId |-> payload.charityId, campaignId |-> payload.campaignId,
   campaignTitle |-> payload.campaignTitle, amount |-> payload.amount,
   status |-> "Completed", paidAt |-> None]

createDonationReport(payload) ==
  LET check == ReportCheck(payload)
  IN /\ IF check.result # "Ok"
        THEN /\ last' = [op |-> "createDonationReport",
                         result |-> check.result, why |-> check.why]
             /\ UNCHANGED <<donationReportStorage, issued>>
        ELSE /\ ReportIds \ issued # {}
             /\ LET donationReportId ==
                      FreshId(ReportIds, issued)
                    donationReport ==
                      NewDonationReport(donationReportId, payload)
                IN /\ donationReportStorage' =
                        MapInsert(donationReportStorage, donationReportId,
                                  donationReport)
                   /\ last' = [op |-> "createDonationReport",
                               result |-> "Ok", why |-> donationReportId]
                   /\ issued' = issued \cup {donationReportId}
     /\ UNCHANGED <<donorProfileStorage, charityProfileStorage,
                    campaignStorage, persistedReserves, pendingReserves,
                    timers, now, inflight, nextDonation, memoFate, okCount>>

\* ------------------------------------------------------- the expiry timer
\* A callback that empties the pending table.
DiscardCallbackClear(memo) == EmptyMap

\* A callback that leaves the pending table as it is.
DiscardCallbackKeep(memo) == pendingReserves

\* The callback of discardByTimeout: pendingReserves.remove(memo).
DiscardCallback(memo) == MapRemove(pendingReserves, memo)

\* A timer set by discardByTimeout fires, at or after its due time.
FireTimer(t) ==
  /\ t \in timers
  /\ now >= t.due
  /\ pendingReserves' = DiscardCallback(t.memo)
  /\ timers' = timers \ {t}
  /\ memoFate' = IF MapHas(pendingReserves, t.memo)
                 THEN [memoFate EXCEPT ![t.memo] = "expired"]
                 ELSE memoFate
  /\ last' = [op |-> "timer", memo |-> t.memo, timerId |-> t.timerId,
              result |-> "none"]
  /\ UNCHANGED <<donorProfileStorage, charityProfileStorage, campaignStorage,
                 persistedReserves, donationReportStorage, now, inflight,
                 nextDonation, okCount, issued>>

\* Time passes, to a later instant t.
Tick(t) ==
  /\ t > now
  /\ now' = t
  /\ last' = [op |-> "tick"]
  /\ UNCHANGED <<tables, timers, inflight, nextDonation, memoFate,
                 okCount, issued>>

\* ------------------------------------------------ completeReserveDonation
\* The call contexts of slots not holding a suspended call.
FreeSlots(slots) == slots \ {c.slot : c \in inflight}
LowestFree(slots) ==
  CHOOSE s \in FreeSlots(slots) : \A r \in FreeSlots(slots) : s <= r

\* completeReserveDonation up to its await: the call is suspended at the
\* ledger query with its arguments and its caller.
CompleteStart(call, slots) ==
  /\ FreeSlots(slots) # {}
  /\ inflight' = inflight \cup
       {[slot |-> LowestFree(slots), caller |-> call.caller,
         reservor |-> call.reservor, donorId |-> call.donorId,
         reservePrice |-> call.reservePrice, block |-> call.block,
         memo |-> call.memo]}
  /\ last' = [op |-> "completeReserveDonation.call"]
  /\ UNCHANGED <<tables, timers, now, nextDonation, memoFate, okCount, issued>>

\* The pending table with the entry of memo read but not removed.
PendingRemoveKeep(memo) == pendingReserves

\* pendingReserves.remove(memo): the table after the removal.
PendingRemove(memo) == MapRemove(pendingReserves, memo)

\* The completed record without the block it was paid at.
CompletedRecordUnpaid(reserve, block) ==
  [reserve EXCEPT !.status = "Completed"]

\* The completed record stamped with the block as its creation time.
CompletedRecordRestamped(reserve, block) ==
  [reserve EXCEPT !.status = "Completed", !.paid_at_block = Some(block),
                  !.createdAt = block]

\* The record completeReserveDonation persists and returns.
CompletedRecord(reserve, block) ==
  [reserve EXCEPT !.status = "Completed", !.paid_at_block = Some(block)]

\* The donor record with the donation counted as well as credited.
CreditDonorCounting(donor, reservePrice) ==
  [donor EXCEPT !.donationAmount = donor.donationAmount + reservePrice,
                !.donationsCount = donor.donationsCount + 1]

\* The donor record after donor.donationAmount += reservePrice.
CreditDonor(donor, reservePrice) ==
  [donor EXCEPT !.donationAmount = donor.donationAmount + reservePrice]

NoRecord == [id |-> 0]

\* A completed table keyed by the donor the call names.
PersistKeyDonor(c) == c.donorId

\* The key of persistedReserves.insert(ic.caller(), updatedReserve).
PersistKey(c) == c.caller

\* An early return that has already taken the pending entry of the memo.
NotVerifiedOutcomeRemoving(c) ==
  [result |-> "NotFound", why |-> "payment", rec |-> NoRecord,
   pending |-> PendingRemove(c.memo), donors |-> donorProfileStorage,
   persisted |-> persistedReserves]

\* The early return of completeReserveDonation when the payment is not
\* verified: no table is touched.
NotVerifiedOutcome(c) ==
  [result |-> "NotFound", why |-> "payment", rec |-> NoRecord,
   pending |-> pendingReserves, donors |-> donorProfileStorage,
   persisted |-> persistedReserves]

\* completeReserveDonation after its await, given the verification's answer:
\* what it returns and the tables it leaves. "Throw" is the uncaught Error
\* of the missing donor, raised after the pending entry was removed.
CompleteOutcome(c, paymentVerified) ==
  IF ~paymentVerified
  THEN NotVerifiedOutcome(c)
  ELSE IF ~MapHas(pendingReserves, c.memo)
  THEN [result |-> "NotFound", why |-> "reserve", rec |-> NoRecord,
        pending |-> PendingRemove(c.memo), donors |-> donorProfileStorage,
        persisted |-> persistedReserves]
  ELSE LET reserve == pendingReserves[c.memo]
           updatedReserve == CompletedRecord(reserve, c.block)
       IN IF ~MapHas(donorProfileStorage, c.donorId)
          THEN [result |-> "Throw", why |-> "donor", rec |-> NoRecord,
                pending |-> PendingRemove(c.memo),
                donors |-> donorProfileStorage,
                persisted |-> persistedReserves]
          ELSE LET donor == CreditDonor(donorProfileStorage[c.donorId],
                                        c.reservePrice)
               IN [result |-> "Ok", why |-> "", rec |-> updatedReserve,
                   pending |-> PendingRemove(c.memo),
                   donors |-> MapInsert(donorProfileStorage, donor.id, donor),
                   persisted |-> MapInsert(persistedReserves, PersistKey(c),
                                           updatedReserve)]

\* The ledger answers the query of the suspended call c with blocks, and the
\* call runs to its end.
CompleteResume(c, blocks) ==
  /\ c \in inflight
  /\ LET paymentVerified ==
           verifyPaymentInternal(c.caller, c.reservor, c.reservePrice,
                                 c.memo, blocks)
         out == CompleteOutcome(c, paymentVerified)
         reserved == IF MapHas(pendingReserves, c.memo)
                     THEN pendingReserves[c.memo] ELSE NoRecord
     IN /\ pendingReserves' = out.pending
        /\ donorProfileStorage' = out.donors
        /\ persistedReserves' = out.persisted
        /\ memoFate' =
             IF out.result = "Ok"
             THEN [memoFate EXCEPT ![c.memo] = "completed"]
             ELSE IF out.result = "Throw"
             THEN [memoFate EXCEPT ![c.memo] = "aborted"]
             ELSE memoFate
        /\ okCount' =
             IF out.result = "Ok"
             THEN MapInsert(okCount, reserved.id,
                            IF MapHas(okCount, reserved.id)
                            THEN okCount[reserved.id] + 1 ELSE 1)
             ELSE okCount
        /\ last' = [op |-> "completeReserveDonation", memo |-> c.memo,
                    verified |-> paymentVerified, result |-> out.result,
                    why |-> out.why, rec |-> out.rec]
  /\ inflight' = inflight \ {c}
  /\ UNCHANGED <<charityProfileStorage, campaignStorage,
                 donationReportStorage, timers, now, nextDonation, issued>>

\* getAllDonations: the values of the completed table, NotFound when empty.
getAllDonations ==
  IF MapValues(persistedReserves) = {}
  THEN [result |-> "NotFound", donations |-> {}]
  ELSE [result |-> "Ok", donations |-> MapValues(persistedReserves)]

\* ------------------------------------------------ the reservation protocol
\* The canister once alice has registered donor d1 and bob has registered
\* charity c1 and its campaign x1 (reached from Init by createDonorProfile,
\* createCharityProfile and createCampaign, see Registered).
Donor1 ==
  NewDonor("d1", "alice", [name |-> "t", phoneNumber |-> "t",
                           email |-> "a@x.io", address |-> "t"])
Charity1 ==
  NewCharity("c1", "bob", [name |-> "t", phoneNumber |-> "t",
                           email |-> "a@x.io", address |-> "t",
                           missionStatement |-> "t"])
Campaign1 ==
  NewCampaign("x1", "bob", [charityId |-> "c1", title |-> "t",
                            description |-> "t", targetAmount |-> 2])

Registered ==
  /\ donorProfileStorage = MapInsert(EmptyMap, "d1", Donor1)
  /\ charityProfileStorage = MapInsert(EmptyMap, "c1", Charity1)
  /\ campaignStorage = MapInsert(EmptyMap, "x1", Campaign1)

InitProtocol ==
  /\ Registered
  /\ persistedReserves = EmptyMap
  /\ pendingReserves = EmptyMap
  /\ donationReportStorage = EmptyMap
  /\ timers = {}
  /\ now = 0
  /\ inflight = {}
  /\ nextDonation = 1
  /\ last = [op |-> "init"]
  /\ memoFate = [m \in Memos |-> "none"]
  /\ okCount = [d \in {} |-> 0]
  /\ issued = {"d1", "c1", "x1"}

\* The inputs of the protocol's specification. alice reserves for either
\* donor id (d2 is not registered) and completes; bob is the payee.
ReservePayloads ==
  [donorId : DonorIds, charityId : CharityIds, campaignId : CampaignIds,
   amount : Amounts]
CompleteArgs ==
  [caller : {"alice"}, reservor : {"bob"}, donorId : DonorIds,
   reservePrice : Amounts, block : BlockIndexes, memo : Memos]
\* The ledger's answers to the query of call c: no block, or a block with
\* the call's memo and a transfer from the caller to the reservor.
AnswersFor(c) ==
  {r \in QueryResponses :
     \/ Len(r) = 0
     \/ /\ r[1].memo = c.memo
        /\ r[1].operation.kind = "Transfer"
        /\ r[1].operation.from = binaryAddressFromPrincipal(c.caller)
        /\ r[1].operation.to = binaryAddressFromPrincipal(c.reservor)}
\* The instants of the logical clock: two within a timeout period of each
\* other, and the instant at which a timer set at the first is due.
Instants == {0, 1, TIMEOUT_PERIOD}
\* The call contexts: one call is suspended at the ledger at a time.
OneSlot == {1}

Next ==
  \/ \E payload \in ReservePayloads : reserveDonation("alice", payload)
  \/ \E call \in CompleteArgs : CompleteStart(call, OneSlot)
  \/ \E c \in inflight :
       \E blocks \in AnswersFor(c) : CompleteResume(c, blocks)
  \/ \E t \in timers : FireTimer(t)
  \/ \E t \in Instants : Tick(t)

Spec == InitProtocol /\ [][Next]_vars

\* ------------------------------------------- the protocol, calls in flight
\* Two completeReserveDonation calls may be suspended at the ledger at once;
\* alice reserves the amount 2 for donor d1 and the calls name d1 and 2.
TwoSlots == {1, 2}
RaceReservePayloads ==
  [donorId : {"d1"}, charityId : CharityIds, campaignId : CampaignIds,
   amount : {2}]
RaceCompleteArgs ==
  [caller : {"alice"}, reservor : {"bob"}, donorId : {"d1"},
   reservePrice : {2}, block : BlockIndexes, memo : Memos]

NextRace ==
  \/ \E payload \in RaceReservePayloads : reserveDonation("alice", payload)
  \/ \E call \in RaceCompleteArgs : CompleteStart(call, TwoSlots)
  \/ \E c \in inflight :
       \E blocks \in AnswersFor(c) : CompleteResume(c, blocks)
  \/ \E t \in timers : FireTimer(t)
  \/ \E t \in Instants : Tick(t)

SpecRace == InitProtocol /\ [][NextRace]_vars

\* ------------------------------------------ registration and reservation
\* From the canister after construction: alice registers donors, bob a
\* charity and its campaign, alice reserves with any identifiers and
\* donation reports are filed.
ValidDonorPayloads ==
  [name : {"t"}, phoneNumber : {"t"}, email : {"a@x.io", "b@x.io"},
   address : {"t"}]
ValidCharityPayloads ==
  [name : {"t"}, phoneNumber : {"t"}, email : {"a@x.io"}, address : {"t"},
   missionStatement : {"t"}]
ValidCampaignPayloads ==
  [charityId : CharityIds, title : {"t"}, description : {"t"},
   targetAmount : {2}]

NextReserve ==
  \/ \E payload \in ValidDonorPayloads : createDonorProfile("alice", payload)
  \/ \E payload \in ValidCharityPayloads : createCharityProfile("bob", payload)
  \/ \E payload \in ValidCampaignPayloads : createCampaign("bob", payload)
  \/ \E payload \in DonationPayloads : reserveDonation("alice", payload)
  \/ \E payload \in ReportPayloads : createDonationReport(payload)

SpecReserve == Init /\ [][NextReserve]_vars

\* --------------------------------------- the protocol, any payee named
\* As the protocol above, with the completing caller free to name either
\* principal as the reservor (the receiver handed to the verification).
PayeeCompleteArgs ==
  [caller : {"alice"}, reservor : Principals, donorId : {"d1"},
   reservePrice : {2}, block : BlockIndexes, memo : Memos]

NextPayee ==
  \/ \E payload \in RaceReservePayloads : reserveDonation("alice", payload)
  \/ \E call \in PayeeCompleteArgs : CompleteStart(call, OneSlot)
  \/ \E c \in inflight :
       \E blocks \in AnswersFor(c) : CompleteResume(c, blocks)
  \/ \E t \in timers : FireTimer(t)
  \/ \E t \in Instants : Tick(t)

SpecPayee == InitProtocol /\ [][NextPayee]_vars

\* ------------------------------------------- the protocol, timers fair
\* The instants of the clock here include the due time of every timer:
\* reservations are made at instants whose timeout is itself an instant.
LiveInstants == {0, 1, TIMEOUT_PERIOD, TIMEOUT_PERIOD + 1}

\* Some timer that is due fires.
FireAny == \E t \in timers : FireTimer(t)
\* The clock moves on.
Advance == \E t \in LiveInstants : Tick(t)

NextLive ==
  \/ /\ now + TIMEOUT_PERIOD \in LiveInstants
     /\ \E payload \in RaceReservePayloads : reserveDonation("alice", payload)
  \/ \E call \in RaceCompleteArgs : CompleteStart(call, OneSlot)
  \/ \E c \in inflight :
       \E blocks \in AnswersFor(c) : CompleteResume(c, blocks)
  \/ FireAny
  \/ Advance

\* The system keeps time moving and runs every timer that is due.
SpecLive ==
  InitProtocol /\ [][NextLive]_vars /\ WF_vars(Advance) /\ WF_vars(FireAny)

\* ------------------------------------- profile and campaign maintenance
\* A Principal is an object: the principal it names (text) and the object it
\* is (ref). A record read from a StableBTreeMap is decoded into new
\* objects on every get, and ic.caller() builds its own object on every
\* call: the two are never the same object, whatever they name.
PrincipalObject(p, ref) == [text |-> p, ref |-> ref]
Decoded(p) == PrincipalObject(p, "decoded")
IcCaller(p) == PrincipalObject(p, "ic.caller")

\* a !== b on two objects: they are not the same object.
StrictNotEqual(a, b) == a.ref # b.ref

Unauthorized == [result |-> "Error", why |-> "Unauthorized"]

UpdateDonorPayloads ==
  [name : {"u"}, phoneNumber : {"t"}, email : {"a@x.io"}, address : {"t"}]

\* {...donorProfile, ...payload}
UpdatedDonorProfile(donorProfile, payload) ==
  [donorProfile EXCEPT !.name = payload.name,
                       !.phoneNumber = payload.phoneNumber,
                       !.email = payload.email,
                       !.address = payload.address]

updateDonorProfile(caller, donorId, payload) ==
  /\ IF ~MapHas(donorProfileStorage, donorId)
     THEN /\ last' = [op |-> "updateDonorProfile", caller |-> caller,
                      id |-> donorId, result |-> "NotFound", why |-> "donor"]
          /\ UNCHANGED donorProfileStorage
     ELSE LET donorProfile == donorProfileStorage[donorId]
              owner == Decoded(donorProfile.owner)
              icCaller == IcCaller(caller)
          IN IF StrictNotEqual(owner, icCaller)
                THEN /\ last' = [op |-> "updateDonorProfile",
                                 caller |-> caller, id |-> donorId,
                                 result |-> Unauthorized.result,
                                 why |-> Unauthorized.why]
                     /\ UNCHANGED donorProfileStorage
                ELSE /\ donorProfileStorage' =
                          MapInsert(donorProfileStorage, donorId,
                                    UpdatedDonorProfile(donorProfile, payload))
                     /\ last' = [op |-> "updateDonorProfile",
                                 caller |-> caller, id |-> donorId,
                                 result |-> "Ok", why |-> ""]
  /\ UNCHANGED <<charityProfileStorage, campaignStorage, persistedReserves,
                 pendingReserves, donationReportStorage, timers, now,
                 inflight, nextDonation, memoFate, okCount, issued>>

deleteDonorProfile(caller, donorId) ==
  /\ IF ~MapHas(donorProfileStorage, donorId)
     THEN /\ last' = [op |-> "deleteDonorProfile", caller |-> caller,
                      id |-> donorId, result |-> "NotFound", why |-> "donor"]
          /\ UNCHANGED donorProfileStorage
     ELSE LET donorProfile == donorProfileStorage[donorId]
              owner == Decoded(donorProfile.owner)
              icCaller == IcCaller(caller)
          IN IF StrictNotEqual(owner, icCaller)
                THEN /\ last' = [op |-> "deleteDonorProfile",
                                 caller |-> caller, id |-> donorId,
                                 result |-> Unauthorized.result,
                                 why |-> Unauthorized.why]
                     /\ UNCHANGED donorProfileStorage
                ELSE /\ donorProfileStorage' =
                          MapRemove(donorProfileStorage, donorId)
                     /\ last' = [op |-> "deleteDonorProfile",
                                 caller |-> caller, id |-> donorId,
                                 result |-> "Ok", why |-> ""]
  /\ UNCHANGED <<charityProfileStorage, campaignStorage, persistedReserves,
                 pendingReserves, donationReportStorage, timers, now,
                 inflight, nextDonation, memoFate, okCount, issued>>

UpdateCharityPayloads ==
  [name : {"u"}, phoneNumber : {"t"}, email : {"a@x.io"}, address : {"t"},
   missionStatement : {"t"}]

\* {...charityProfile, ...payload}
UpdatedCharityProfile(charityProfile, payload) ==
  [charityProfile EXCEPT !.name = payload.name,
                         !.phoneNumber = payload.phoneNumber,
                         !.email = payload.email,
                         !.address = payload.address,
                         !.missionStatement = payload.missionStatement]

updateCharityProfile(caller, charityId, payload) ==
  /\ IF ~MapHas(charityProfileStorage, charityId)
     THEN /\ last' = [op |-> "updateCharityProfile", caller |-> caller,
                      id |-> charityId, result |-> "NotFound",
                      why |-> "charity"]
          /\ UNCHANGED charityProfileStorage
     ELSE LET charityProfile == charityProfileStorage[charityId]
              owner == Decoded(charityProfile.owner)
              icCaller == IcCaller(caller)
          IN IF StrictNotEqual(owner, icCaller)
                THEN /\ last' = [op |-> "updateCharityProfile",
                                 caller |-> caller, id |-> charityId,
                                 result |-> Unauthorized.result,
                                 why |-> Unauthorized.why]
                     /\ UNCHANGED charityProfileStorage
                ELSE /\ charityProfileStorage' =
                          MapInsert(charityProfileStorage, charityId,
                                    UpdatedCharityProfile(charityProfile,
                                                          payload))
                     /\ last' = [op |-> "updateCharityProfile",
                                 caller |-> caller, id |-> charityId,
                                 result |-> "Ok", why |-> ""]
  /\ UNCHANGED <<donorProfileStorage, campaignStorage, persistedReserves,
                 pendingReserves, donationReportStorage, timers, now,
                 inflight, nextDonation, memoFate, okCount, issued>>

deleteCharityProfile(caller, charityId) ==
  /\ IF ~MapHas(charityProfileStorage, charityId)
     THEN /\ last' = [op |-> "deleteCharityProfile", caller |-> caller,
                      id |-> charityId, result |-> "NotFound",
                      why |-> "charity"]
          /\ UNCHANGED charityProfileStorage
     ELSE LET charityProfile == charityProfileStorage[charityId]
              owner == Decoded(charityProfile.owner)
              icCaller == IcCaller(caller)
          IN IF StrictNotEqual(owner, icCaller)
                THEN /\ last' = [op |-> "deleteCharityProfile",
                                 caller |-> caller, id |-> charityId,
                                 result |-> Unauthorized.result,
                                 why |-> Unauthorized.why]
                     /\ UNCHANGED charityProfileStorage
                ELSE /\ charityProfileStorage' =
                          MapRemove(charityProfileStorage, charityId)
                     /\ last' = [op |-> "deleteCharityProfile",
                                 caller |-> caller, id |-> charityId,
                                 result |-> "Ok", why |-> ""]
  /\ UNCHANGED <<donorProfileStorage, campaignStorage, persistedReserves,
                 pendingReserves, donationReportStorage, timers, now,
                 inflight, nextDonation, memoFate, okCount, issued>>

UpdateCampaignPayloads ==
  [charityId : CharityIds, title : {"u"}, description : {"t"},
   targetAmount : {2}]

\* {...campaign, ...payload}
UpdatedCampaign(campaign, payload) ==
  [campaign EXCEPT !.charityId = payload.charityId,
                   !.title = payload.title,
                   !.description = payload.description,
                   !.targetAmount = payload.targetAmount]

updateCampaign(caller, campaignId, payload) ==
  /\ IF ~MapHas(campaignStorage, campaignId)
     THEN /\ last' = [op |-> "updateCampaign", caller |-> caller,
                      id |-> campaignId, result |-> "NotFound",
                      why |-> "campaign"]
          /\ UNCHANGED campaignStorage
     ELSE LET campaign == campaignStorage[campaignId]
              creator == Decoded(campaign.creator)
              icCaller == IcCaller(caller)
          IN IF StrictNotEqual(creator, icCaller)
                THEN /\ last' = [op |-> "updateCampaign", caller |-> caller,
                                 id |-> campaignId,
                                 result |-> Unauthorized.result,
                                 why |-> Unauthorized.why]
                     /\ UNCHANGED campaignStorage
                ELSE /\ campaignStorage' =
                          MapInsert(campaignStorage, campaignId,
                                    UpdatedCampaign(campaign, payload))
                     /\ last' = [op |-> "updateCampaign", caller |-> caller,
                                 id |-> campaignId, result |-> "Ok",
                                 why |-> ""]
  /\ UNCHANGED <<donorProfileStorage, charityProfileStorage,
                 persistedReserves, pendingReserves, donationReportStorage,
                 timers, now, inflight, nextDonation, memoFate, okCount, issued>>

deleteCampaignById(caller, campaignId) ==
  /\ IF ~MapHas(campaignStorage, campaignId)
     THEN /\ last' = [op |-> "deleteCampaignById", caller |-> caller,
                      id |-> campaignId, result |-> "NotFound",
                      why |-> "campaign"]
          /\ UNCHANGED campaignStorage
     ELSE LET campaign == campaignStorage[campaignId]
              creator == Decoded(campaign.creator)
              icCaller == IcCaller(caller)
          IN IF StrictNotEqual(creator, icCaller)
                THEN /\ last' = [op |-> "deleteCampaignById",
                                 caller |-> caller, id |-> campaignId,
                                 result |-> Unauthorized.result,
                                 why |-> Unauthorized.why]
                     /\ UNCHANGED campaignStorage
                ELSE /\ campaignStorage' =
                          MapRemove(campaignStorage, campaignId)
                     /\ last' = [op |-> "deleteCampaignById",
                                 caller |-> caller, id |-> campaignId,
                                 result |-> "Ok", why |-> ""]
  /\ UNCHANGED <<donorProfileStorage, charityProfileStorage,
                 persistedReserves, pendingReserves, donationReportStorage,
                 timers, now, inflight, nextDonation, memoFate, okCount, issued>>

\* A campaign marked Cancelled.
CancelledCampaign(campaign) == [campaign EXCEPT !.status = "Cancelled"]

\* {...campaign, status: {Completed: "Completed"}}
CompletedCampaign(campaign) == [campaign EXCEPT !.status = "Completed"]

completeCampaign(caller, campaignId) ==
  /\ IF ~MapHas(campaignStorage, campaignId)
     THEN /\ last' = [op |-> "completeCampaign", caller |-> caller,
                      campaignId |-> campaignId,
                      result |-> "NotFound", why |-> "campaign"]
          /\ UNCHANGED campaignStorage
     ELSE /\ campaignStorage' =
               MapInsert(campaignStorage, campaignId,
                         CompletedCampaign(campaignStorage[campaignId]))
          /\ last' = [op |-> "completeCampaign", caller |-> caller,
                      campaignId |-> campaignId,
                      result |-> "Ok", why |-> ""]
  /\ UNCHANGED <<donorProfileStorage, charityProfileStorage,
                 persistedReserves, pendingReserves, donationReportStorage,
                 timers, now, inflight, nextDonation, memoFate, okCount, issued>>

\* The donor of acceptCampaign with the campaign left out of the donations.
AcceptingDonorCountOnly(donor, campaignId) ==
  [donor EXCEPT !.donationsCount = donor.donationsCount + 1]

\* updatedDonor of acceptCampaign.
AcceptingDonor(donor, campaignId) ==
  [donor EXCEPT !.donations = Append(donor.donations, campaignId),
                !.donationsCount = donor.donationsCount + 1]

\* updatedCampaign of acceptCampaign.
AcceptedCampaign(campaign, donorId) ==
  [campaign EXCEPT !.donors = Append(campaign.donors, donorId),
                   !.status = "Accepted"]

\* acceptCampaign; the lists it appends to are kept within MaxAccepts.
acceptCampaign(donorId, campaignId) ==
  /\ IF ~MapHas(donorProfileStorage, donorId)
     THEN /\ last' = [op |-> "acceptCampaign", donorId |-> donorId,
                      campaignId |-> campaignId, result |-> "NotFound",
                      why |-> "donor"]
          /\ UNCHANGED <<donorProfileStorage, campaignStorage>>
     ELSE IF ~MapHas(campaignStorage, campaignId)
     THEN /\ last' = [op |-> "acceptCampaign", donorId |-> donorId,
                      campaignId |-> campaignId, result |-> "NotFound",
                      why |-> "campaign"]
          /\ UNCHANGED <<donorProfileStorage, campaignStorage>>
     ELSE LET campaign == campaignStorage[campaignId]
              donor == donorProfileStorage[donorId]
          IN /\ Len(campaign.donors) < MaxAccepts
             /\ Len(donor.donations) < MaxAccepts
             /\ donorProfileStorage' =
                  MapInsert(donorProfileStorage, donorId,
                            AcceptingDonor(donor, campaignId))
             /\ campaignStorage' =
                  MapInsert(campaignStorage, campaignId,
                            AcceptedCampaign(campaign, donorId))
             /\ last' = [op |-> "acceptCampaign", donorId |-> donorId,
                         campaignId |-> campaignId, result |-> "Ok",
                         why |-> ""]
  /\ UNCHANGED <<charityProfileStorage, persistedReserves, pendingReserves,
                 donationReportStorage, timers, now, inflight, nextDonation,
                 memoFate, okCount, issued>>

\* From the canister after construction: alice registers donors, bob a
\* charity and its campaign, and either of them calls the maintenance
\* operations with any identifier.
AdminDonorPayloads ==
  [name : {"t"}, phoneNumber : {"t"}, email : {"a@x.io"}, address : {"t"}]

NextAdmin ==
  \/ \E payload \in AdminDonorPayloads : createDonorProfile("alice", payload)
  \/ \E payload \in ValidCharityPayloads : createCharityProfile("bob", payload)
  \/ \E payload \in ValidCampaignPayloads : createCampaign("bob", payload)
  \/ \E caller \in Principals, donorId \in {"d1", "d9"},
        payload \in UpdateDonorPayloads :
       updateDonorProfile(caller, donorId, payload)
  \/ \E caller \in Principals, donorId \in {"d1", "d9"} :
       deleteDonorProfile(caller, donorId)
  \/ \E caller \in Principals, charityId \in {"c1", "c9"},
        payload \in UpdateCharityPayloads :
       updateCharityProfile(caller, charityId, payload)
  \/ \E caller \in Principals, charityId \in {"c1", "c9"} :
       deleteCharityProfile(caller, charityId)
  \/ \E caller \in Principals, campaignId \in {"x1", "x9"},
        payload \in UpdateCampaignPayloads :
       updateCampaign(caller, campaignId, payload)
  \/ \E caller \in Principals, campaignId \in {"x1", "x9"} :
       deleteCampaignById(caller, campaignId)
  \/ \E donorId \in {"d1", "d9"}, campaignId \in {"x1", "x9"} :
       acceptCampaign(donorId, campaignId)
  \/ \E caller \in Principals, campaignId \in {"x1", "x9"} :
       completeCampaign(caller, campaignId)

SpecAdmin == Init /\ [][NextAdmin]_vars

\* ------------------------------------------ the protocol, two donors
\* As the protocol above, once bob has registered a second donor d2: alice
\* reserves for d1 and names either donor when she completes, and donation
\* reports are filed.
Donor2 ==
  NewDonor("d2", "bob", [name |-> "t", phoneNumber |-> "t",
                         email |-> "b@x.io", address |-> "t"])

InitDonors ==
  /\ donorProfileStorage =
       MapInsert(MapInsert(EmptyMap, "d1", Donor1), "d2", Donor2)
  /\ charityProfileStorage = MapInsert(EmptyMap, "c1", Charity1)
  /\ campaignStorage = MapInsert(EmptyMap, "x1", Campaign1)
  /\ persistedReserves = EmptyMap
  /\ pendingReserves = EmptyMap
  /\ donationReportStorage = EmptyMap
  /\ timers = {}
  /\ now = 0
  /\ inflight = {}
  /\ nextDonation = 1
  /\ last = [op |-> "init"]
  /\ memoFate = [m \in Memos |-> "none"]
  /\ okCount = [d \in {} |-> 0]
  /\ issued = {"d1", "d2", "c1", "x1"}

DonorCompleteArgs ==
  [caller : {"alice"}, reservor : {"bob"}, donorId : DonorIds,
   reservePrice : {2}, block : BlockIndexes, memo : Memos]

\* Reports are filed for either donor, or with no amount.
DonorReportPayloads ==
  [donorId : DonorIds, charityId : CharityIds, campaignId : CampaignIds,
   campaignTitle : {"t"}, amount : {0, 2}]

NextDonors ==
  \/ \E payload \in RaceReservePayloads : reserveDonation("alice", payload)
  \/ \E call \in DonorCompleteArgs : CompleteStart(call, OneSlot)
  \/ \E c \in inflight :
       \E blocks \in AnswersFor(c) : CompleteResume(c, blocks)
  \/ \E t \in timers : FireTimer(t)
  \/ \E t \in Instants : Tick(t)
  \/ \E payload \in DonorReportPayloads : createDonationReport(payload)

SpecDonors == InitDonors /\ [][NextDonors]_vars

\* ------------------------------------------------ profiles and emails
\* Profiles only: donors and charities are created, updated and deleted.
\* Two donor profiles can exist, with the two well-formed emails.
NextEmail ==
  \/ \E caller \in Principals, payload \in ValidDonorPayloads :
       createDonorProfile(caller, payload)
  \/ \E caller \in Principals, donorId \in DonorIds,
        payload \in UpdateDonorPayloads :
       updateDonorProfile(caller, donorId, payload)
  \/ \E caller \in Principals, donorId \in DonorIds :
       deleteDonorProfile(caller, donorId)
  \/ \E caller \in Principals, payload \in ValidCharityPayloads :
       createCharityProfile(caller, payload)
  \/ \E caller \in Principals, charityId \in CharityIds,
        payload \in UpdateCharityPayloads :
       updateCharityProfile(caller, charityId, payload)
  \/ \E caller \in Principals, charityId \in CharityIds :
       deleteCharityProfile(caller, charityId)

SpecEmail == Init /\ [][NextEmail]_vars

\* ------------------------------------------------ the life of a donor
\* Every operation that writes a donor profile, from the registered
\* canister: alice creates a second donor and updates profiles, campaigns
\* are accepted, donations reserved and completed.
LifeCompleteArgs == {call \in DonorCompleteArgs : call.donorId = "d1"}

NextDonorLife ==
  \/ \E payload \in ValidDonorPayloads : createDonorProfile("alice", payload)
  \/ \E donorId \in DonorIds, payload \in UpdateDonorPayloads :
       updateDonorProfile("alice", donorId, payload)
  \/ \E donorId \in DonorIds, campaignId \in CampaignIds :
       acceptCampaign(donorId, campaignId)
  \/ \E payload \in RaceReservePayloads : reserveDonation("alice", payload)
  \/ \E call \in LifeCompleteArgs : CompleteStart(call, OneSlot)
  \/ \E c \in inflight :
       \E blocks \in AnswersFor(c) : CompleteResume(c, blocks)

SpecDonorLife == InitProtocol /\ [][NextDonorLife]_vars

\* ------------------------------------------------ correlation ids
\* Two donors, two charities and a campaign of each are registered; either
\* principal reserves with any of them, and time passes.
Charity2 ==
  NewCharity("c2", "alice", [name |-> "t", phoneNumber |-> "t",
                             email |-> "b@x.io", address |-> "t",
                             missionStatement |-> "t"])
Campaign2 ==
  NewCampaign("x2", "alice", [charityId |-> "c2", title |-> "t",
                              description |-> "t", targetAmount |-> 2])

InitMemo ==
  /\ donorProfileStorage =
       MapInsert(MapInsert(EmptyMap, "d1", Donor1), "d2", Donor2)
  /\ charityProfileStorage =
       MapInsert(MapInsert(EmptyMap, "c1", Charity1), "c2", Charity2)
  /\ campaignStorage =
       MapInsert(MapInsert(EmptyMap, "x1", Campaign1), "x2", Campaign2)
  /\ persistedReserves = EmptyMap
  /\ pendingReserves = EmptyMap
  /\ donationReportStorage = EmptyMap
  /\ timers = {}
  /\ now = 0
  /\ inflight = {}
  /\ nextDonation = 1
  /\ last = [op |-> "init"]
  /\ memoFate = [m \in Memos |-> "none"]
  /\ okCount = [d \in {} |-> 0]
  /\ issued = {"d1", "d2", "c1", "c2", "x1", "x2"}

MemoPayloads ==
  [donorId : DonorIds, charityId : {"c1", "c2"}, campaignId : {"x1", "x2"},
   amount : Amounts]

NextMemo ==
  \/ \E caller \in Principals, payload \in MemoPayloads :
       reserveDonation(caller, payload)
  \/ \E t \in Instants : Tick(t)

SpecMemo == InitMemo /\ [][NextMemo]_vars

\* =================================================================== claims
\* The suspended call c runs to its end in this step.
Resumed(c) == c \in inflight /\ c \notin inflight'

\* Donation ids handed out so far.
ReservedIds == 1 .. (nextDonation - 1)
InPending(id) == \E m \in DOMAIN pendingReserves : pendingReserves[m].id = id
InCompleted(id) ==
  \E p \in DOMAIN persistedReserves : persistedReserves[p].id = id

\* C1 (as claimed): when a completeReserveDonation naming the reservation's
\* donor resumes with the payment verified and the memo pending, it returns a
\* Completed donation with paid_at_block set to the block, and the donor's
\* donationAmount grows by exactly the amount stored in the reservation.
C1_CreditsReservedAmount ==
  [][\A c \in inflight :
       (/\ Resumed(c)
        /\ last'.verified
        /\ MapHas(pendingReserves, c.memo)
        /\ pendingReserves[c.memo].donorId = c.donorId)
       => LET r == pendingReserves[c.memo]
          IN /\ last'.result = "Ok"
             /\ last'.rec.status = "Completed"
             /\ last'.rec.paid_at_block = Some(c.block)
             /\ donorProfileStorage'[r.donorId].donationAmount =
                  donorProfileStorage[r.donorId].donationAmount + r.amount]_vars

\* C2: a completeReserveDonation that resumes with the payment verified for a
\* memo whose reservation was already completed (and not reserved again
\* since) returns NotFound, inserts nothing into the completed table and
\* changes no donor.
C2_SecondCompleteNotFound ==
  [][\A c \in inflight :
       (Resumed(c) /\ last'.verified /\ memoFate[c.memo] = "completed")
       => /\ last'.result = "NotFound"
          /\ last'.why = "reserve"
          /\ persistedReserves' = persistedReserves
          /\ donorProfileStorage' = donorProfileStorage]_vars

C2_Witness ==
  /\ last.op = "completeReserveDonation"
  /\ last.verified
  /\ last.result = "NotFound"
  /\ memoFate[last.memo] = "completed"

\* C3: with calls for one memo in flight together and the timer firing at
\* any point, no reservation is completed twice, and the donors are credited
\* at most once per completed reservation.
MaxAmount == CHOOSE a \in Amounts : \A b \in Amounts : b <= a
TotalCredited(donors) ==
  LET RECURSIVE Sum(_)
      Sum(S) == IF S = {} THEN 0
                ELSE LET d == CHOOSE x \in S : TRUE
                     IN donors[d].donationAmount + Sum(S \ {d})
  IN Sum(DOMAIN donors)
C3_AtMostOneCompletion ==
  /\ \A id \in DOMAIN okCount : okCount[id] <= 1
  /\ TotalCredited(donorProfileStorage)
       <= MaxAmount * Cardinality(DOMAIN okCount)

C3_Witness ==
  /\ last.op = "completeReserveDonation"
  /\ last.result = "Ok"
  /\ \E c \in inflight : c.memo = last.memo
  /\ \E t \in timers : t.memo = last.memo /\ now >= t.due

\* C4: a completeReserveDonation that resumes with the payment verified for a
\* memo whose reservation the expiry timer removed (and that was not reserved
\* again since) returns NotFound and changes no table; the timer's firing
\* returns nothing to any caller.
C4_CompleteAfterExpiryNotFound ==
  [][/\ \A c \in inflight :
          (Resumed(c) /\ last'.verified /\ memoFate[c.memo] = "expired")
          => /\ last'.result = "NotFound"
             /\ last'.why = "reserve"
             /\ tables' = tables
     /\ (timers' # timers /\ Cardinality(timers') < Cardinality(timers))
          => last'.op = "timer" /\ last'.result = "none"]_vars

C4_Witness ==
  /\ last.op = "completeReserveDonation"
  /\ last.verified
  /\ last.result = "NotFound"
  /\ memoFate[last.memo] = "expired"

\* C5: a completeReserveDonation whose verification fails returns NotFound
\* and changes no table and no timer; and one whose verification succeeds
\* while the memo is pending and the named donor exists completes, whatever
\* verifications failed before.
C5_FailedVerificationKeepsReservation ==
  [][\A c \in inflight :
       /\ (Resumed(c) /\ ~last'.verified)
            => /\ last'.result = "NotFound"
               /\ last'.why = "payment"
               /\ tables' = tables
               /\ timers' = timers
       /\ (/\ Resumed(c)
           /\ last'.verified
           /\ MapHas(pendingReserves, c.memo)
           /\ MapHas(donorProfileStorage, c.donorId))
            => last'.result = "Ok"]_vars

C5_Witness ==
  /\ last.op = "completeReserveDonation"
  /\ ~last.verified
  /\ last.result = "NotFound"
  /\ MapHas(pendingReserves, last.memo)

\* C6 (as claimed): verifyPayment answers true only if the queried block
\* carries a Transfer whose memo is the memo, whose source is the caller's
\* address, whose destination is the receiver's address and whose amount is
\* the amount.
C6_TrueOnlyOnExactMatch ==
  (last.op = "verifyPayment" /\ last.result)
  => \E i \in 1 .. Len(last.blocks) :
       LET b == last.blocks[i]
       IN /\ b.operation.kind = "Transfer"
          /\ b.memo = last.memo
          /\ b.operation.from = binaryAddressFromPrincipal(last.caller)
          /\ b.operation.to = binaryAddressFromPrincipal(last.receiver)
          /\ b.operation.e8s = last.amount

\* C7: every record of the completed table is Completed with paid_at_block
\* set and belongs to a donation a completion returned Ok for; and the table
\* changes only when a completeReserveDonation resumes with the payment
\* verified, removes the pending entry of its memo and inserts that entry's
\* donation under its caller.
C7_CompletedOnlyAfterVerification ==
  /\ [](\A p \in DOMAIN persistedReserves :
          /\ persistedReserves[p].status = "Completed"
          /\ persistedReserves[p].paid_at_block # None
          /\ MapHas(okCount, persistedReserves[p].id))
  /\ [][persistedReserves' # persistedReserves
        => \E c \in inflight :
             /\ Resumed(c)
             /\ last'.verified
             /\ last'.result = "Ok"
             /\ MapHas(pendingReserves, c.memo)
             /\ ~MapHas(pendingReserves', c.memo)
             /\ DOMAIN persistedReserves' =
                  DOMAIN persistedReserves \cup {c.caller}
             /\ persistedReserves'[c.caller].id = pendingReserves[c.memo].id
             /\ \A p \in DOMAIN persistedReserves \ {c.caller} :
                  persistedReserves'[p] = persistedReserves[p]]_vars

C7_Witness ==
  /\ last.op = "completeReserveDonation"
  /\ last.result = "Ok"
  /\ last.verified
  /\ \E p \in DOMAIN persistedReserves : persistedReserves[p] = last.rec

\* C8 (as claimed): every donation that was reserved is in exactly one of
\* the pending and the completed table.
C8_ExactlyOneTable ==
  \A id \in ReservedIds : InPending(id) # InCompleted(id)

\* C8 (amended): no donation is in both tables; a donation enters the
\* completed table only by leaving the pending table in the same step; and a
\* donation that is not pending (completed, expired, overwritten or dropped)
\* never becomes pending again.
C8_AtMostOneTable ==
  /\ [](\A id \in ReservedIds : ~(InPending(id) /\ InCompleted(id)))
  /\ [][\A id \in ReservedIds :
          /\ (InCompleted(id)' /\ ~InCompleted(id))
               => (InPending(id) /\ ~InPending(id)')
          /\ ~InPending(id) => ~InPending(id)']_vars

C8_Witness ==
  \E a \in ReservedIds, b \in ReservedIds :
    /\ InCompleted(a) /\ ~InPending(a)
    /\ ~InCompleted(b) /\ ~InPending(b)
    /\ \E m \in Memos : memoFate[m] = "expired"

\* C9: a reserveDonation with non-empty ids fails with NotFound for the
\* first of donor, charity, campaign that does not exist, in that order, and
\* succeeds when all three exist.
C9_NotFoundInOrder ==
  (/\ last.op = "reserveDonation"
   /\ last.donorId # "" /\ last.charityId # "" /\ last.campaignId # "")
  => IF ~MapHas(donorProfileStorage, last.donorId)
     THEN last.result = "NotFound" /\ last.why = "donor"
     ELSE IF ~MapHas(charityProfileStorage, last.charityId)
     THEN last.result = "NotFound" /\ last.why = "charity"
     ELSE IF ~MapHas(campaignStorage, last.campaignId)
     THEN last.result = "NotFound" /\ last.why = "campaign"
     ELSE last.result = "Ok"

C9_Witness ==
  /\ last.op = "reserveDonation"
  /\ last.result = "NotFound"
  /\ last.why = "donor"
  /\ last.donorId # ""
  /\ last.charityId # "" /\ ~MapHas(charityProfileStorage, last.charityId)
  /\ last.campaignId # "" /\ ~MapHas(campaignStorage, last.campaignId)
  /\ charityProfileStorage # EmptyMap

\* C10: a reserveDonation that returns Ok returns a PaymentPending record
\* with paid_at_block empty, the donor's owner as donator, the campaign's
\* creator as receiver and the requested amount; the step puts that record
\* into the pending table under its memo and adds exactly one timer, for
\* that memo, due a timeout period later.
C10_ReservationRecorded ==
  [][(last'.op = "reserveDonation" /\ last'.result = "Ok")
     => LET rec == last'.rec
        IN /\ rec.status = "PaymentPending"
           /\ rec.paid_at_block = None
           /\ rec.donator = donorProfileStorage[last'.donorId].owner
           /\ rec.receiver = campaignStorage[last'.campaignId].creator
           /\ rec.amount = last'.amount
           /\ rec.donorId = last'.donorId
           /\ pendingReserves' = MapInsert(pendingReserves, rec.memo, rec)
           /\ pendingReserves'[rec.memo] = rec
           /\ timers \subseteq timers'
           /\ Cardinality(timers' \ timers) = 1
           /\ \A t \in timers' \ timers :
                t.memo = rec.memo /\ t.due = now + TIMEOUT_PERIOD]_vars

C10_Witness ==
  /\ last.op = "reserveDonation"
  /\ last.result = "Ok"
  /\ MapHas(pendingReserves, last.rec.memo)
  /\ pendingReserves[last.rec.memo] = last.rec
  /\ \E t \in timers : t.memo = last.rec.memo /\ t.timerId = last.rec.id

\* C11: when the expiry callback fires for a memo under which nothing is
\* pending (the reservation was completed or removed before), it changes no
\* table and reports nothing.
C11_ExpiryOfAbsentMemoIsNoOp ==
  [][\A t \in timers :
       (/\ t \notin timers'
        /\ last'.op = "timer"
        /\ ~MapHas(pendingReserves, t.memo))
       => /\ tables' = tables
          /\ last'.result = "none"]_vars

C11_Witness ==
  /\ last.op = "timer"
  /\ memoFate[last.memo] = "completed"
  /\ pendingReserves # EmptyMap

\* C12: the pending table holds one reservation per memo, each under its own
\* memo; a reserveDonation whose memo is already pending returns Ok, puts
\* its record in the place of the earlier one and leaves the earlier
\* reservation in no pending entry.
C12_CollidingReserveReplaces ==
  /\ [](/\ \A m \in DOMAIN pendingReserves : pendingReserves[m].memo = m
        /\ Cardinality({pendingReserves[m].id : m \in DOMAIN pendingReserves})
             = Cardinality(DOMAIN pendingReserves))
  /\ [][(/\ last'.op = "reserveDonation"
         /\ nextDonation' # nextDonation
         /\ MapHas(pendingReserves, last'.rec.memo))
        => /\ last'.result = "Ok"
           /\ DOMAIN pendingReserves' = DOMAIN pendingReserves
           /\ pendingReserves'[last'.rec.memo] = last'.rec
           /\ \A m \in DOMAIN pendingReserves' :
                pendingReserves'[m].id # pendingReserves[last'.rec.memo].id]_vars

C12_Witness ==
  /\ last.op = "reserveDonation"
  /\ last.result = "Ok"
  /\ last.rec.id = 2
  /\ DOMAIN pendingReserves = {last.rec.memo}
  /\ DOMAIN okCount = {}
  /\ \A m \in Memos : memoFate[m] \in {"none", "pending"}

\* C13: a completeReserveDonation that returns Ok puts its record under its
\* caller in the completed table, in the place of the caller's earlier
\* record if there is one; the table, and so getAllDonations, holds no more
\* records than there are completing callers.
Completers == {call.caller : call \in CompleteArgs}
C13_OneCompletedPerCaller ==
  /\ [](/\ DOMAIN persistedReserves \subseteq Completers
        /\ Cardinality(getAllDonations.donations) <= Cardinality(Completers))
  /\ [][\A c \in inflight :
          (Resumed(c) /\ last'.result = "Ok")
          => /\ persistedReserves' =
                  MapInsert(persistedReserves, c.caller, last'.rec)
             /\ \A r \in getAllDonations'.donations :
                  r.id # last'.rec.id => r \in getAllDonations.donations]_vars

C13_Witness ==
  /\ last.op = "completeReserveDonation"
  /\ last.result = "Ok"
  /\ Cardinality(DOMAIN okCount) = 2
  /\ getAllDonations.donations = {last.rec}

\* C14: when a completeReserveDonation resumes with the payment verified and
\* the memo pending but no donor under its donorId, it ends with an uncaught
\* Error and no tagged result, the pending entry is gone, and the completed
\* table and the donors are unchanged: the reservation is in neither table.
C14_MissingDonorAbortsAfterRemoval ==
  [][\A c \in inflight :
       (/\ Resumed(c)
        /\ last'.verified
        /\ MapHas(pendingReserves, c.memo)
        /\ ~MapHas(donorProfileStorage, c.donorId))
       => /\ last'.result = "Throw"
          /\ ~MapHas(pendingReserves', c.memo)
          /\ persistedReserves' = persistedReserves
          /\ donorProfileStorage' = donorProfileStorage
          /\ \A m \in DOMAIN pendingReserves' :
               pendingReserves'[m].id # pendingReserves[c.memo].id
          /\ \A p \in DOMAIN persistedReserves' :
               persistedReserves'[p].id # pendingReserves[c.memo].id]_vars

C14_Witness ==
  /\ last.op = "completeReserveDonation"
  /\ last.result = "Throw"
  /\ memoFate[last.memo] = "aborted"
  /\ ~MapHas(pendingReserves, last.memo)

\* C15: a completeReserveDonation that returns Ok changes, outside the
\* pending and completed tables, only the donationAmount of the donor named
\* by its donorId: charities, campaigns, reports, the other donors and the
\* donor's other fields are unchanged.
C15_OnlyDonationAmountChanges ==
  [][\A c \in inflight :
       (Resumed(c) /\ last'.result = "Ok")
       => /\ charityProfileStorage' = charityProfileStorage
          /\ campaignStorage' = campaignStorage
          /\ donationReportStorage' = donationReportStorage
          /\ DOMAIN donorProfileStorage' = DOMAIN donorProfileStorage
          /\ \A d \in DOMAIN donorProfileStorage :
               donorProfileStorage'[d] =
                 IF d = c.donorId
                 THEN [donorProfileStorage[d] EXCEPT !.donationAmount =
                         donorProfileStorage[d].donationAmount
                           + c.reservePrice]
                 ELSE donorProfileStorage[d]]_vars

C15_Witness ==
  /\ last.op = "completeReserveDonation"
  /\ last.result = "Ok"
  /\ \E d \in DOMAIN donorProfileStorage :
       donorProfileStorage[d].donationAmount > 0
  /\ campaignStorage["x1"].totalReceived = 0

\* C16 (as claimed): for every completeReserveDonation that returns Ok, the
\* receiver handed to the ledger verification is the receiver stored in the
\* reservation it completes (the campaign's creator).
C16_VerifiedPayeeIsReceiver ==
  [][\A c \in inflight :
       (Resumed(c) /\ last'.result = "Ok")
       => c.reservor = pendingReserves[c.memo].receiver]_vars

\* C17: with time advancing and due timers firing, every reservation that is
\* in the pending table is eventually not in it.
C17_NoReservationPendingForever ==
  \A id \in 1 .. MaxReserves : InPending(id) ~> ~InPending(id)

C17_Witness ==
  /\ \E m \in Memos : memoFate[m] = "expired"
  /\ nextDonation > 1
  /\ pendingReserves = EmptyMap
  /\ timers = {}

\* C18 (as claimed): a campaign's status changes only from Pending to
\* Accepted, by acceptCampaign, and from Accepted to Completed, by
\* completeCampaign; so never from Pending to Completed and never away from
\* Completed.
C18_StatusOnlyForward ==
  [][\A x \in DOMAIN campaignStorage \cap DOMAIN campaignStorage' :
       LET before == campaignStorage[x].status
           after == campaignStorage'[x].status
       IN before # after
          => \/ /\ before = "Pending" /\ after = "Accepted"
                /\ last'.op = "acceptCampaign"
             \/ /\ before = "Accepted" /\ after = "Completed"
                /\ last'.op = "completeCampaign"]_vars

\* C19: acceptCampaign(donorId, campaignId) returns NotFound and changes no
\* donor and no campaign when the donor does not exist or, the donor
\* existing, the campaign does not; otherwise it returns Ok, sets the
\* campaign's status to Accepted and appends donorId to its donors, appends
\* campaignId to the donor's donations and adds one to the donor's
\* donationsCount, and changes nothing else in the two tables.
C19_AcceptCampaignEffects ==
  [][last'.op = "acceptCampaign"
     => LET d == last'.donorId
            x == last'.campaignId
        IN IF ~MapHas(donorProfileStorage, d)
           THEN /\ last'.result = "NotFound" /\ last'.why = "donor"
                /\ donorProfileStorage' = donorProfileStorage
                /\ campaignStorage' = campaignStorage
           ELSE IF ~MapHas(campaignStorage, x)
           THEN /\ last'.result = "NotFound" /\ last'.why = "campaign"
                /\ donorProfileStorage' = donorProfileStorage
                /\ campaignStorage' = campaignStorage
           ELSE /\ last'.result = "Ok"
                /\ campaignStorage' =
                     [campaignStorage EXCEPT ![x] =
                        [@ EXCEPT !.status = "Accepted",
                                  !.donors = Append(@, d)]]
                /\ donorProfileStorage' =
                     [donorProfileStorage EXCEPT ![d] =
                        [@ EXCEPT !.donations = Append(@, x),
                                  !.donationsCount = @ + 1]]]_vars

C19_Witness ==
  /\ last.op = "acceptCampaign"
  /\ last.result = "Ok"
  /\ campaignStorage[last.campaignId].status = "Accepted"
  /\ campaignStorage[last.campaignId].donors = <<last.donorId>>
  /\ donorProfileStorage[last.donorId].donations = <<last.campaignId>>
  /\ donorProfileStorage[last.donorId].donationsCount = 1

\* The six owner-only operations and the table each works on.
DonorMutations == {"updateDonorProfile", "deleteDonorProfile"}
CharityMutations == {"updateCharityProfile", "deleteCharityProfile"}
CampaignMutations == {"updateCampaign", "deleteCampaignById"}
MutatedTable(op) ==
  IF op \in DonorMutations THEN donorProfileStorage
  ELSE IF op \in CharityMutations THEN charityProfileStorage
  ELSE campaignStorage
OwnerIn(table, op, id) ==
  IF op \in CampaignMutations THEN table[id].creator ELSE table[id].owner

\* C20 (as claimed): each of the six operations, called for a record that
\* exists, returns Ok when the caller is the record's owner (the creator of
\* a campaign), and for any other caller returns the Unauthorized error and
\* leaves the record as it is.
C20_OwnerOnlyMutation ==
  [][(/\ last'.op \in DonorMutations \cup CharityMutations
                        \cup CampaignMutations
      /\ MapHas(MutatedTable(last'.op), last'.id))
     => LET table == MutatedTable(last'.op)
        IN IF OwnerIn(table, last'.op, last'.id) = last'.caller
           THEN last'.result = "Ok"
           ELSE /\ last'.result = "Error"
                /\ last'.why = "Unauthorized"
                /\ tables' = tables]_vars

\* The part of C20 about other callers: a caller who is not the owner gets
\* the Unauthorized error and the tables are unchanged.
C20_OthersRefused ==
  [][(/\ last'.op \in DonorMutations \cup CharityMutations
                        \cup CampaignMutations
      /\ MapHas(MutatedTable(last'.op), last'.id)
      /\ OwnerIn(MutatedTable(last'.op), last'.op, last'.id) # last'.caller)
     => /\ last'.result = "Error"
        /\ last'.why = "Unauthorized"
        /\ tables' = tables]_vars

\* C21 (as claimed): every completeReserveDonation that returns Ok names, in
\* its donorId argument, the donor stored in the reservation it completes,
\* so the donor credited is the donor who reserved.
C21_CreditedDonorIsReservationDonor ==
  [][\A c \in inflight :
       (Resumed(c) /\ last'.result = "Ok")
       => /\ c.donorId = pendingReserves[c.memo].donorId
          /\ \A d \in DOMAIN donorProfileStorage :
               d # pendingReserves[c.memo].donorId
               => donorProfileStorage'[d] = donorProfileStorage[d]]_vars

\* C22 (as claimed): a timer's firing removes a pending reservation only
\* once TIMEOUT_PERIOD has passed since that reservation was created, as the
\* reservation's own timer does; a timer left by an earlier reservation with
\* the same memo does not remove it earlier.
C22_OnlyOwnTimerExpires ==
  [][\A t \in timers :
       (/\ t \notin timers'
        /\ last'.op = "timer"
        /\ MapHas(pendingReserves, t.memo))
       => now >= pendingReserves[t.memo].createdAt + TIMEOUT_PERIOD]_vars

\* C23: the record a completeReserveDonation returns with Ok, and puts in the
\* completed table, is the pending reservation it removed with status
\* Completed and paid_at_block the block argument, every other field (id,
\* donorId, charityId, campaignId, donator, receiver, amount, createdAt,
\* memo) as it was.
C23_CompletedRecordKeepsFields ==
  [][\A c \in inflight :
       (Resumed(c) /\ last'.result = "Ok")
       => LET r == pendingReserves[c.memo]
              done == last'.rec
          IN /\ done.id = r.id /\ done.donorId = r.donorId
             /\ done.charityId = r.charityId
             /\ done.campaignId = r.campaignId
             /\ done.donator = r.donator /\ done.receiver = r.receiver
             /\ done.amount = r.amount /\ done.createdAt = r.createdAt
             /\ done.memo = r.memo
             /\ done.status = "Completed"
             /\ done.paid_at_block = Some(c.block)
             /\ DOMAIN done = DOMAIN r
             /\ persistedReserves'[c.caller] = done]_vars

C23_Witness ==
  /\ last.op = "completeReserveDonation"
  /\ last.result = "Ok"
  /\ last.rec.paid_at_block = Some(5)
  /\ last.rec.createdAt = 1
  /\ last.rec.receiver = "bob"
  /\ persistedReserves["alice"] = last.rec

\* C24: a reserveDonation with an empty donorId, charityId or campaignId
\* returns InvalidPayload whatever the tables hold; and a reserveDonation
\* that does not return Ok (InvalidPayload or NotFound) changes no table,
\* sets no timer and uses no donation id.
C24_FailedReserveChangesNothing ==
  [][last'.op = "reserveDonation"
     => /\ (last'.donorId = "" \/ last'.charityId = ""
              \/ last'.campaignId = "")
             => last'.result = "InvalidPayload"
        /\ last'.result # "Ok"
             => /\ last'.result \in {"InvalidPayload", "NotFound"}
                /\ tables' = tables
                /\ timers' = timers
                /\ nextDonation' = nextDonation]_vars

C24_Witness ==
  /\ last.op = "reserveDonation"
  /\ last.result = "InvalidPayload"
  /\ last.campaignId = ""
  /\ last.donorId = "d9"
  /\ donorProfileStorage # EmptyMap
  /\ timers = {}

\* C25: every stored campaign has status Pending, Accepted or Completed;
\* none is Cancelled.
C25_NoCampaignCancelled ==
  \A x \in DOMAIN campaignStorage :
    campaignStorage[x].status \in {"Pending", "Accepted", "Completed"}

C25_Witness ==
  /\ last.op = "updateCampaign"
  /\ last.result = "Error"
  /\ campaignStorage[last.id].status = "Completed"
  /\ campaignStorage[last.id].donors # <<>>

\* C26 (as claimed): completeCampaign for a stored campaign sets its status
\* to Completed when the caller is the campaign's creator, and leaves the
\* campaign as it is when the caller is anyone else.
C26_OnlyCreatorCompletes ==
  [][(/\ last'.op = "completeCampaign"
      /\ MapHas(campaignStorage, last'.campaignId))
     => IF campaignStorage[last'.campaignId].creator = last'.caller
        THEN campaignStorage'[last'.campaignId].status = "Completed"
        ELSE campaignStorage' = campaignStorage]_vars

C28_CountIsLengthOfDonations ==
  \A d \in DOMAIN donorProfileStorage :
    donorProfileStorage[d].donationsCount
      = Len(donorProfileStorage[d].donations)

C28_Witness ==
  \E d \in DOMAIN donorProfileStorage :
    /\ donorProfileStorage[d].donationsCount = 2
    /\ donorProfileStorage[d].donationAmount > 0
    /\ MapHas(persistedReserves, "alice")
    /\ DOMAIN donorProfileStorage = DonorIds
    /\ last.op = "updateDonorProfile"
    /\ last.id = d

\* C29: the memo of a successful reserveDonation is never negative, and a
\* reservation made straight after another for the same donor id, by the
\* same caller, at the same time gets the memo the earlier one got,
\* whatever charity, campaign and amount the two calls name and whatever
\* the tables hold by then.
C29_MemoFixedByDonorCallerTime ==
  (last.op = "reserveDonation" /\ last.result = "Ok")
  => /\ last.rec.memo >= 0
     /\ last.earlier.seen => last.rec.memo = last.earlier.rec.memo

C29_Witness ==
  /\ last.op = "reserveDonation" /\ last.result = "Ok"
  /\ last.earlier.seen
  /\ last.earlier.rec.donorId = last.rec.donorId
  /\ last.earlier.rec.createdAt = last.rec.createdAt
  /\ last.earlier.rec.charityId # last.rec.charityId
  /\ last.earlier.rec.campaignId # last.rec.campaignId
  /\ last.earlier.rec.amount # last.rec.amount
  /\ last.earlier.rec.memo = last.rec.memo
  /\ last.earlier.rec.id # last.rec.id

====
